---------------------------- MODULE Spec2Model ----------------------------
(***************************************************************************)
(* Model of mindboggle/mio/colors.py:                                      *)
(*   distinguishable_colors  - greedy maximin selection of colors          *)
(*   label_adjacency_matrix  - adjacency matrix of label pairs             *)
(*   group_colors            - adjacency-aware reordering of a colormap    *)
(*                                                                         *)
(* RGB coordinates are integers counted in half grid steps, so that the    *)
(* lattice value x[i] = i/(n_grid-1) of np.linspace is the integer 2*i and *)
(* 1.0 is 2*(n_grid-1); odd coordinates are colors off the lattice.        *)
(***************************************************************************)
EXTENDS Integers, Sequences, FiniteSets, TLC

\* ------------------------------------------------------------------------
\* Bounds of the model
\* ------------------------------------------------------------------------
\* grid divisions per RGB axis (30 in the source; the model uses a small grid)
n_grid == 2
\* longest list of background colors passed to distinguishable_colors
MaxBackgrounds == 2
\* largest number of labels (colors, matrix rows, list entries) of a
\* group_colors call
MaxLabels == 3
\* longest list of label pairs the border extraction hands to
\* label_adjacency_matrix
MaxPairs == 2

\* ------------------------------------------------------------------------
\* State
\* ------------------------------------------------------------------------
VARIABLES
    \* distinguishable_colors
    dc_pc,            \* position in distinguishable_colors
    ncolors,          \* argument
    backgrounds,      \* argument: sequence of RGB triples
    min_dx,           \* difference from the closest previously-chosen color
    last_lab_color,   \* Lab value of the previous pick
    colors,           \* np.zeros((ncolors, 3)), filled one row per iteration
    icolor,           \* loop counter of the selection loop (0-based)
    prev_ncolors,     \* ncolors of the previous returned call (-1: none)
    prev_colors,      \* colormap returned by the previous call
    \* label_adjacency_matrix
    lam_pc,           \* position in label_adjacency_matrix
    label_file,       \* argument: path of the label file
    add_value,        \* argument
    save_table,       \* argument
    output_format,    \* argument
    label_pairs,      \* label pairs found by the border extraction
    pairs,            \* unique pairs, add_value added
    unique_labels,    \* np.unique(pairs)
    matrix,           \* adjacency matrix (rows of 0/1)
    output_table,     \* name of the table file, "None" for None
    \* group_colors
    gc_pc,            \* position in group_colors
    colormap,         \* argument: the colormap array
    adjacency_matrix, \* argument: square matrix, <<>> for the default []
    arg_IDs,          \* argument IDs as passed by the caller
    arg_names,        \* argument names as passed by the caller
    arg_groups,       \* argument groups as passed by the caller
    IDs,              \* local IDs (line 490 may rebind it)
    names,            \* local names (line 492 may rebind it)
    groups,           \* local groups (line 494 may rebind it)
    nlabels,          \* np.shape(colors)[0]
    new_colors,       \* np.copy(colors), rows reassigned group by group
    new_colors_obj,   \* the array object the name new_colors is bound to
    plot_graphs,      \* local flag, cleared without an adjacency matrix
    isort_labels,     \* labels by decreasing adjacency sum
    label_groups,     \* group numbers in processing order
    igroup_next,      \* position in label_groups of the next group
    icolors_to_pick,  \* indices of the colors not yet picked
    gc_colors,        \* the returned list (new_colors.tolist())
    gc_colors_obj     \* the object that is returned

dcVars == <<dc_pc, ncolors, backgrounds, min_dx, last_lab_color, colors,
            icolor, prev_ncolors, prev_colors>>

lamVars == <<lam_pc, label_file, add_value, save_table, output_format,
             label_pairs, pairs, unique_labels, matrix, output_table>>

gcArgs == <<colormap, adjacency_matrix, arg_IDs, arg_names, arg_groups>>

gcLocals == <<IDs, names, groups, nlabels, new_colors, new_colors_obj,
              plot_graphs, isort_labels, label_groups, igroup_next,
              icolors_to_pick, gc_colors, gc_colors_obj>>

gcVars == <<gc_pc, gcArgs, gcLocals>>

vars == <<dcVars, lamVars, gcVars>>

\* ------------------------------------------------------------------------
\* Sequence helpers
\* ------------------------------------------------------------------------
Range(s) == {s[i] : i \in DOMAIN s}

SeqsUpTo(S, n) == UNION {[1..k -> S] : k \in 0..n}

Min2(a, b) == IF a <= b THEN a ELSE b

\* ------------------------------------------------------------------------
\* Candidate space (colors.py lines 83-89)
\* ------------------------------------------------------------------------
\* x = np.linspace(0, 1, num=n_grid, endpoint=True), in half grid steps
x == [i \in 1..n_grid |-> 2 * (i - 1)]

ncolors_total == n_grid * n_grid * n_grid

\* R, G, B = np.meshgrid(x, x, x) with the default 'xy' indexing, raveled in
\* C order: for the flat index n = i*n_grid^2 + j*n_grid + k,
\* R = x[j], G = x[i], B = x[k].
RGB == [n \in 1..ncolors_total |->
          <<x[(((n - 1) \div n_grid) % n_grid) + 1],
            x[((n - 1) \div (n_grid * n_grid)) + 1],
            x[((n - 1) % n_grid) + 1]>>]

\* ------------------------------------------------------------------------
\* Perceptual metric (colormath, external to the repository)
\* ------------------------------------------------------------------------
\* AdobeRGB -> Lab: an injective opponent-color transform
\* (lightness, red-green, yellow-blue).
convert_color(rgb) ==
    <<2 * rgb[1] + 4 * rgb[2] + rgb[3],
      rgb[1] - rgb[2],
      rgb[1] + rgb[2] - 2 * rgb[3]>>

\* Color difference of two Lab values: non-negative, symmetric, and zero
\* exactly for equal colors.
delta_e_cie2000(lab1, lab2) ==
    (lab1[1] - lab2[1]) * (lab1[1] - lab2[1])
  + (lab1[2] - lab2[2]) * (lab1[2] - lab2[2])
  + (lab1[3] - lab2[3]) * (lab1[3] - lab2[3])

lab_colors == [n \in 1..ncolors_total |-> convert_color(RGB[n])]

\* np.inf: larger than every difference between two colors of the unit cube
inf == 69 * (2 * (n_grid - 1)) * (2 * (n_grid - 1)) + 1

\* np.argmax: index of the first occurrence of the maximum
argmax(a) ==
    CHOOSE i \in DOMAIN a :
        /\ \A j \in DOMAIN a : a[j] <= a[i]
        /\ \A j \in DOMAIN a : j < i => a[j] < a[i]

\* ------------------------------------------------------------------------
\* distinguishable_colors
\* ------------------------------------------------------------------------
black == <<0, 0, 0>>
white == <<2 * (n_grid - 1), 2 * (n_grid - 1), 2 * (n_grid - 1)>>
\* a color of the unit cube that is no lattice point
offgrid == <<1, 1, 1>>

BackgroundPalette == {black, white, offgrid}

BackgroundLists == SeqsUpTo(BackgroundPalette, MaxBackgrounds)

\* Lab values of the backgrounds (lines 104-109)
bg_lab_colors == [i \in DOMAIN backgrounds |-> convert_color(backgrounds[i])]

\* min_dx after the background loops (lines 115-121), computed one
\* background at a time
RECURSIVE SeedMinDx(_, _)
SeedMinDx(m, k) ==
    IF k > Len(backgrounds) THEN m
    ELSE SeedMinDx([n \in 1..ncolors_total |->
                       Min2(delta_e_cie2000(lab_colors[n], bg_lab_colors[k]),
                            m[n])],
                   k + 1)

\* (mutation of UpdateMinDx: the difference from the last color replaces the
\* stored one)
UpdateMinDxLatest(m, last) ==
    [n \in 1..ncolors_total |-> delta_e_cie2000(lab_colors[n], last)]

\* lines 133-135: difference of the last color from all colors on the list
UpdateMinDx(m, last) ==
    [n \in 1..ncolors_total |->
        Min2(delta_e_cie2000(lab_colors[n], last), m[n])]

\* (mutation of StoreRow: the rows are filled from the last one backwards)
StoreRowReversed(ic) == ncolors - ic

\* line 141: the row of colors that iteration icolor fills (1-based)
StoreRow(ic) == ic + 1

\* (mutation of ExceedsCapacity: off by one)
ExceedsCapacityOffByOne(n) == n >= ncolors_total

\* line 90: if ncolors > ncolors_total
ExceedsCapacity(n) == n > ncolors_total

dcIdle ==
    /\ min_dx = <<>>
    /\ last_lab_color = <<>>
    /\ colors = <<>>
    /\ icolor = 0

\* The caller invokes distinguishable_colors(ncolors, backgrounds, ...)
dcCall ==
    /\ dc_pc \in {"idle", "returned", "raised_IOError", "raised_IndexError"}
    /\ ncolors' \in 1..(ncolors_total + 1)
    /\ dc_pc' = "check"
    /\ min_dx' = <<>>
    /\ last_lab_color' = <<>>
    /\ colors' = <<>>
    /\ icolor' = 0
    /\ UNCHANGED <<backgrounds, prev_ncolors, prev_colors>>
    /\ UNCHANGED <<lamVars, gcVars>>

\* lines 90-91: raise IOError("You can't readily distinguish that many colors")
dcRaiseCapacity ==
    /\ dc_pc = "check"
    /\ ExceedsCapacity(ncolors)
    /\ dc_pc' = "raised_IOError"
    /\ UNCHANGED <<ncolors, backgrounds, min_dx, last_lab_color, colors,
                   icolor, prev_ncolors, prev_colors>>
    /\ UNCHANGED <<lamVars, gcVars>>

\* lines 97-121: Lab conversion and differences from the backgrounds
dcSeed ==
    /\ dc_pc = "check"
    /\ ~ExceedsCapacity(ncolors)
    /\ min_dx' = SeedMinDx([n \in 1..ncolors_total |-> inf], 1)
    /\ dc_pc' = "seeded"
    /\ UNCHANGED <<ncolors, backgrounds, last_lab_color, colors, icolor,
                   prev_ncolors, prev_colors>>
    /\ UNCHANGED <<lamVars, gcVars>>

\* line 128 with an empty background list: bg_lab_colors[-1] raises IndexError
dcRaiseNoBackground ==
    /\ dc_pc = "seeded"
    /\ backgrounds = <<>>
    /\ dc_pc' = "raised_IndexError"
    /\ UNCHANGED <<ncolors, backgrounds, min_dx, last_lab_color, colors,
                   icolor, prev_ncolors, prev_colors>>
    /\ UNCHANGED <<lamVars, gcVars>>

\* lines 128-129: last_lab_color = bg_lab_colors[-1]; colors = np.zeros(...)
dcStartLoop ==
    /\ dc_pc = "seeded"
    /\ backgrounds # <<>>
    /\ last_lab_color' = bg_lab_colors[Len(backgrounds)]
    /\ colors' = [i \in 1..ncolors |-> <<0, 0, 0>>]
    /\ icolor' = 0
    /\ dc_pc' = "loop"
    /\ UNCHANGED <<ncolors, backgrounds, min_dx, prev_ncolors, prev_colors>>
    /\ UNCHANGED <<lamVars, gcVars>>

\* lines 130-144: one iteration of the selection loop
dcPick ==
    /\ dc_pc = "loop"
    /\ icolor < ncolors
    /\ LET m == UpdateMinDx(min_dx, last_lab_color)
           imax_dx == argmax(m)
       IN /\ min_dx' = m
          /\ colors' = [colors EXCEPT ![StoreRow(icolor)] = RGB[imax_dx]]
          /\ last_lab_color' = lab_colors[imax_dx]
    /\ icolor' = icolor + 1
    /\ UNCHANGED <<dc_pc, ncolors, backgrounds, prev_ncolors, prev_colors>>
    /\ UNCHANGED <<lamVars, gcVars>>

\* line 174: return colors (plotting and saving switched off)
dcReturn ==
    /\ dc_pc = "loop"
    /\ icolor = ncolors
    /\ dc_pc' = "returned"
    /\ UNCHANGED <<ncolors, backgrounds, min_dx, last_lab_color, colors,
                   icolor, prev_ncolors, prev_colors>>
    /\ UNCHANGED <<lamVars, gcVars>>

\* The caller keeps the returned colormap and is ready for the next call
dcKeep ==
    /\ dc_pc = "returned"
    /\ prev_ncolors' = ncolors
    /\ prev_colors' = colors
    /\ dc_pc' = "idle"
    /\ UNCHANGED <<ncolors, backgrounds, min_dx, last_lab_color, colors,
                   icolor>>
    /\ UNCHANGED <<lamVars, gcVars>>

\* ------------------------------------------------------------------------
\* Properties of distinguishable_colors
\* ------------------------------------------------------------------------
dcRaised == dc_pc \in {"raised_IOError", "raised_IndexError"}

\* C1: prefix-consistency.  For the same non-empty background list, when one
\* call returned k colors and another returned k+1 colors (k >= 1), the
\* first k of the k+1 colors are the k colors, in the same order.
C1_PrefixConsistency ==
    /\ (dc_pc = "returned" /\ prev_ncolors >= 1 /\ ncolors = prev_ncolors + 1)
          => SubSeq(colors, 1, prev_ncolors) = prev_colors
    /\ (dc_pc = "returned" /\ ncolors >= 1 /\ prev_ncolors = ncolors + 1)
          => SubSeq(prev_colors, 1, ncolors) = colors

C1_Witness ==
    /\ dc_pc = "returned"
    /\ prev_ncolors >= 2
    /\ ncolors = prev_ncolors + 1
    /\ Len(backgrounds) >= 2
    /\ colors[ncolors] # colors[1]

\* C3: the colors returned by one call with 1 <= ncolors <= pool size are
\* pairwise distinct candidates (the lattice points are pairwise distinct, so
\* equal rows are equal candidate indices).
C3_NoRepeatedPick ==
    dc_pc = "returned" =>
        \A i, j \in 1..ncolors : i < j => colors[i] # colors[j]

\* C4: no color returned by a call with 1 <= ncolors <= pool size equals a
\* background color.
C4_NoBackgroundCollision ==
    dc_pc = "returned" =>
        \A i \in 1..ncolors : \A b \in DOMAIN backgrounds :
            colors[i] # backgrounds[b]

\* C5: capacity boundary.  A request for more colors than the pool holds
\* raises before any color is selected (no colormap exists); a request for
\* exactly the pool size with a non-empty background list never raises and
\* returns a colormap of pool-size rows.
C5_CapacityBoundary ==
    /\ (ncolors > ncolors_total /\ dc_pc # "check")
          => (dc_pc = "raised_IOError" /\ colors = <<>> /\ icolor = 0)
    /\ dc_pc = "raised_IOError" => ncolors > ncolors_total
    /\ (ncolors = ncolors_total /\ backgrounds # <<>>) => ~dcRaised
    /\ (ncolors = ncolors_total /\ dc_pc = "returned")
          => (Len(colors) = ncolors_total /\ icolor = ncolors_total)

C5_Witness ==
    /\ dc_pc = "returned"
    /\ ncolors = ncolors_total
    /\ Len(colors) = ncolors_total

\* the Lab values the candidates are compared with when the row k of colors
\* is picked: the backgrounds and the rows picked before
ComparedWith(k) ==
    {convert_color(backgrounds[b]) : b \in DOMAIN backgrounds}
        \cup {convert_color(colors[j]) : j \in 1..(k - 1)}

\* d is the smallest difference of the candidate c from the Lab values in S
IsMinDifference(d, c, S) ==
    /\ \A l \in S : d <= delta_e_cie2000(lab_colors[c], l)
    /\ \E l \in S : d = delta_e_cie2000(lab_colors[c], l)

\* C13: after every iteration of the selection loop, min_dx of every
\* candidate is its smallest difference from the backgrounds and the colors
\* picked in the iterations before, and the color picked in this iteration
\* is the candidate with the largest min_dx, the lowest index among equals.
C13_GreedyMaximin ==
    (dc_pc \in {"loop", "returned"} /\ icolor >= 1) =>
        /\ LET S == ComparedWith(icolor)
           IN \A c \in 1..ncolors_total : IsMinDifference(min_dx[c], c, S)
        /\ \E i \in 1..ncolors_total :
               /\ colors[icolor] = RGB[i]
               /\ \A j \in 1..ncolors_total : min_dx[j] <= min_dx[i]
               /\ \A j \in 1..(i - 1) : min_dx[j] < min_dx[i]

C13_Witness ==
    /\ dc_pc = "returned"
    /\ icolor >= 3
    /\ Len(backgrounds) = MaxBackgrounds
    /\ \E c \in 1..ncolors_total : min_dx[c] > 0
    /\ \E c, d \in 1..ncolors_total :
           c # d /\ min_dx[c] = min_dx[d] /\ min_dx[c] = min_dx[argmax(min_dx)]


\* ------------------------------------------------------------------------
\* label_adjacency_matrix
\* ------------------------------------------------------------------------
LabelFiles == {"labels.vtk", "labels.nii.gz", "labels.txt"}

OutputFormats == {"csv", "", "json"}

\* label numbers found in a label file
FileLabels == 1..3

\* label pairs the border extraction can hand over: two different labels
LabelPairLists ==
    SeqsUpTo({pr \in FileLabels \X FileLabels : pr[1] # pr[2]}, MaxPairs)

\* label_file.endswith(...), lines 248 and 259
IsSurfaceFile(f) == f = "labels.vtk"
IsVolumeFile(f) == f = "labels.nii.gz"

\* lines 284-289: unique pairs with add_value added, in order of first
\* occurrence
RECURSIVE UniquePairs(_, _, _)
UniquePairs(lp, k, acc) ==
    IF k > Len(lp) THEN acc
    ELSE LET new_pair == <<lp[k][1] + add_value, lp[k][2] + add_value>>
         IN UniquePairs(lp, k + 1,
                        IF new_pair \in Range(acc) THEN acc
                        ELSE Append(acc, new_pair))

\* the elements of a finite set of integers in increasing order
RECURSIVE SortedSeq(_)
SortedSeq(S) ==
    IF S = {} THEN <<>>
    ELSE LET lo == CHOOSE e \in S : \A f \in S : e <= f
         IN <<lo>> \o SortedSeq(S \ {lo})

\* line 292: np.unique(pairs)
UniqueLabels(ps) ==
    SortedSeq({ps[k][1] : k \in DOMAIN ps} \cup {ps[k][2] : k \in DOMAIN ps})

\* (mutation of AdjacencyOfPairs: a pair also sets the mirrored entry)
AdjacencyOfPairsSymmetric(ps, labels) ==
    [i \in DOMAIN labels |->
        [j \in DOMAIN labels |->
            IF \/ <<labels[i], labels[j]>> \in Range(ps)
               \/ <<labels[j], labels[i]>> \in Range(ps)
            THEN 1 ELSE 0]]

\* lines 294-298: matrix[index1, index2] = 1 for every pair
AdjacencyOfPairs(ps, labels) ==
    [i \in DOMAIN labels |->
        [j \in DOMAIN labels |->
            IF <<labels[i], labels[j]>> \in Range(ps) THEN 1 ELSE 0]]

\* (mutation of FormatRejected: the else branch of line 310 is missing)
FormatNeverRejected(st, fmt) == FALSE

\* lines 305-311: the format is looked at only when the table is saved
FormatRejected(st, fmt) == st /\ fmt # "csv"

lamIdle ==
    /\ lam_pc = "idle"
    /\ label_file = ""
    /\ add_value = 0
    /\ save_table = FALSE
    /\ output_format = ""
    /\ label_pairs = <<>>
    /\ pairs = <<>>
    /\ unique_labels = <<>>
    /\ matrix = <<>>
    /\ output_table = "None"

\* lines 280-281: raise IOError("Use appropriate input file type.")
lamRaiseFileType ==
    /\ lam_pc = "start"
    /\ ~IsSurfaceFile(label_file)
    /\ ~IsVolumeFile(label_file)
    /\ lam_pc' = "raised_IOError_file"
    /\ UNCHANGED <<label_file, add_value, save_table, output_format,
                   label_pairs, pairs, unique_labels, matrix, output_table>>
    /\ UNCHANGED <<dcVars, gcVars>>

\* lines 248-278: border extraction (surface) or dilation (volume) yields
\* the label pairs; the table name is put together
lamExtract ==
    /\ lam_pc = "start"
    /\ IsSurfaceFile(label_file) \/ IsVolumeFile(label_file)
    /\ label_pairs' \in LabelPairLists
    /\ output_table' = IF IsSurfaceFile(label_file)
                       THEN <<"adjacent_surface_labels.", output_format>>
                       ELSE <<"adjacent_volume_labels.", output_format>>
    /\ lam_pc' = "extracted"
    /\ UNCHANGED <<label_file, add_value, save_table, output_format,
                   pairs, unique_labels, matrix>>
    /\ UNCHANGED <<dcVars, gcVars>>

\* lines 283-303: unique pairs and adjacency matrix
lamBuild ==
    /\ lam_pc = "extracted"
    /\ LET ps == UniquePairs(label_pairs, 1, <<>>)
       IN /\ pairs' = ps
          /\ unique_labels' = UniqueLabels(ps)
          /\ matrix' = AdjacencyOfPairs(ps, UniqueLabels(ps))
    /\ lam_pc' = "built"
    /\ UNCHANGED <<label_file, add_value, save_table, output_format,
                   label_pairs, output_table>>
    /\ UNCHANGED <<dcVars, gcVars>>

\* lines 310-311: raise IOError("Set appropriate output file format.")
lamRaiseFormat ==
    /\ lam_pc = "built"
    /\ FormatRejected(save_table, output_format)
    /\ lam_pc' = "raised_IOError_format"
    /\ UNCHANGED <<label_file, add_value, save_table, output_format,
                   label_pairs, pairs, unique_labels, matrix, output_table>>
    /\ UNCHANGED <<dcVars, gcVars>>

\* lines 305-309, 315-317: the table is written, then the function returns
lamSaveAndReturn ==
    /\ lam_pc = "built"
    /\ save_table
    /\ ~FormatRejected(save_table, output_format)
    /\ lam_pc' = "returned"
    /\ UNCHANGED <<label_file, add_value, save_table, output_format,
                   label_pairs, pairs, unique_labels, matrix, output_table>>
    /\ UNCHANGED <<dcVars, gcVars>>

\* lines 312-317: nothing is written, output_table = None, return
lamReturnUnsaved ==
    /\ lam_pc = "built"
    /\ ~save_table
    /\ ~FormatRejected(save_table, output_format)
    /\ output_table' = "None"
    /\ lam_pc' = "returned"
    /\ UNCHANGED <<label_file, add_value, save_table, output_format,
                   label_pairs, pairs, unique_labels, matrix>>
    /\ UNCHANGED <<dcVars, gcVars>>

\* ------------------------------------------------------------------------
\* Properties of label_adjacency_matrix
\* ------------------------------------------------------------------------
\* C10 as claimed: every call whose output_format is not 'csv' fails with an
\* error, whatever save_table is.
C10_AnyBadFormatFails ==
    output_format # "csv" => lam_pc # "returned"

\* C10 amended: a call with save_table true and an output_format other than
\* 'csv' never returns (it raises, the format error coming after the matrix
\* is built); the format error is raised only in that case; a call with
\* save_table false returns with output_table None whatever the format is.
C10_BadFormatFailsWhenSaving ==
    /\ (save_table /\ output_format # "csv") => lam_pc # "returned"
    /\ (save_table /\ output_format # "csv" /\ lam_pc = "built")
          => ENABLED lamRaiseFormat
    /\ lam_pc = "raised_IOError_format"
          => (save_table /\ output_format # "csv")
    /\ (lam_pc = "returned" /\ ~save_table) => output_table = "None"

C10_Witness ==
    /\ lam_pc = "raised_IOError_format"
    /\ save_table
    /\ output_format = ""
    /\ Len(pairs) >= 2

\* the matrix of the call has been built
lamBuilt == lam_pc \in {"built", "returned", "raised_IOError_format"}

\* the labels of the extracted pairs, add_value added
PairLabels ==
    {label_pairs[k][1] + add_value : k \in DOMAIN label_pairs}
        \cup {label_pairs[k][2] + add_value : k \in DOMAIN label_pairs}

\* the extracted pairs hold the pair [a, b], add_value added, in this order
PairListed(a, b) ==
    \E k \in DOMAIN label_pairs :
        /\ label_pairs[k][1] + add_value = a
        /\ label_pairs[k][2] + add_value = b

\* rows and columns are the labels of the pairs in increasing order, and
\* every entry is 0 or 1
IndexedBySortedLabels ==
    /\ Range(unique_labels) = PairLabels
    /\ \A i, j \in DOMAIN unique_labels :
           i < j => unique_labels[i] < unique_labels[j]
    /\ DOMAIN matrix = DOMAIN unique_labels
    /\ \A i \in DOMAIN matrix :
           /\ DOMAIN matrix[i] = DOMAIN unique_labels
           /\ \A j \in DOMAIN matrix[i] : matrix[i][j] \in {0, 1}

\* C11 as claimed: once the matrix is built its rows and columns are the
\* sorted unique labels of the pairs, and entry (i, j) is 1 if and only if
\* the labels i and j are adjacent, a pair [a, b] making a adjacent to b and
\* b adjacent to a; all other entries are 0.
C11_UndirectedAdjacency ==
    lamBuilt =>
        /\ IndexedBySortedLabels
        /\ \A i, j \in DOMAIN unique_labels :
               matrix[i][j] = 1 <=>
                   \/ PairListed(unique_labels[i], unique_labels[j])
                   \/ PairListed(unique_labels[j], unique_labels[i])

\* C11 amended: once the matrix is built its rows and columns are the sorted
\* unique labels of the pairs, and entry (i, j) is 1 if and only if the pair
\* [label i, label j] is listed in this order; a pair [a, b] alone leaves
\* entry (b, a) at 0; all other entries are 0.
C11_DirectedAdjacency ==
    lamBuilt =>
        /\ IndexedBySortedLabels
        /\ \A i, j \in DOMAIN unique_labels :
               matrix[i][j] = 1 <=>
                   PairListed(unique_labels[i], unique_labels[j])

C11_Witness ==
    /\ lam_pc = "returned"
    /\ add_value = 1
    /\ Len(pairs) >= 2
    /\ \E i, j \in DOMAIN unique_labels :
           /\ i < j
           /\ matrix[i][j] = 1
           /\ matrix[j][i] = 0
           /\ ~PairListed(unique_labels[j], unique_labels[i])

\* ------------------------------------------------------------------------
\* group_colors, called with save_text_files and plot_colors off; drawing
\* the graphs (plot_graphs) is done by matplotlib and networkx and changes
\* nothing of the state below
\* ------------------------------------------------------------------------
\* colors a colormap is made of: four lattice points
PaletteOrder == <<RGB[ncolors_total], RGB[2], RGB[3], RGB[1]>>
ColorPalette == Range(PaletteOrder)

\* colormaps: arrays of one to MaxLabels pairwise different colors
Colormaps ==
    {c \in SeqsUpTo(ColorPalette, MaxLabels) :
        /\ Len(c) >= 1
        /\ \A i, j \in DOMAIN c : i # j => c[i] # c[j]}

\* square 0/1 matrices over n labels with an unused (zero) diagonal:
\* upper triangular, as label_adjacency_matrix documents, or symmetric
AdjacencyMatrices(n) ==
    {A \in [1..n -> [1..n -> {0, 1}]] :
        /\ \A i \in 1..n : A[i][i] = 0
        /\ \/ \A i, j \in 1..n : i > j => A[i][j] = 0
           \/ \A i, j \in 1..n : A[i][j] = A[j][i]}

\* the adjacency_matrix argument: the default [] or a matrix
AdjacencyArguments ==
    {<<>>} \cup UNION {AdjacencyMatrices(n) : n \in 1..MaxLabels}

\* lines 295-298: the matrices label_adjacency_matrix writes for pairs
\* listed lower label first, and the default []
UpperTriangularArguments ==
    {A \in AdjacencyArguments :
        \A i, j \in DOMAIN A : i > j => A[i][j] = 0}

GroupNumbers == {1, 2}

\* the label table of the caller: IDs 0, 1, ... and their names
LabelIDs(n) == [i \in 1..n |-> i - 1]
LabelNames(n) == [i \in 1..n |-> <<"label", i - 1>>]

\* lines 489-494: defaults of empty lists
DefaultIDs(n) == [i \in 1..n |-> i - 1]
DefaultNames(n) == [i \in 1..n |-> <<"str", i - 1>>]

\* (mutation of DefaultGroups: every label a group of its own)
DefaultGroupsDistinct(n) == [i \in 1..n |-> i]

\* line 494: groups = [1 for x in range(nlabels)]
DefaultGroups(n) == [i \in 1..n |-> 1]

\* permutations of 1..n, as sequences
PermsUpTo ==
    [n \in 0..(MaxLabels + 1) |->
        {p \in [1..n -> 1..n] : \A i, j \in 1..n : i # j => p[i] # p[j]}]

Perms(n) == PermsUpTo[n]

\* np.argsort(keys): the index sequences that put keys in increasing order;
\* the default sort is not stable, so equal keys come in any order
argsort(keys) ==
    {p \in Perms(Len(keys)) :
        \A i \in 1..(Len(keys) - 1) : keys[p[i]] <= keys[p[i + 1]]}

\* a[::-1]
Reversed(a) == [i \in 1..Len(a) |-> a[Len(a) + 1 - i]]

\* not-a-number, which sorts after every number
nan == MaxLabels + 1

\* np.max(adjacency_values)
MatrixMax(A) ==
    CHOOSE m \in {A[i][j] : i \in DOMAIN A, j \in DOMAIN A} :
        \A i \in DOMAIN A, j \in DOMAIN A : A[i][j] <= m

\* line 532: adjacency_values / np.max(adjacency_values); the entries are
\* 0 or 1, so the quotient is the entry itself, or nan (0/0) when the matrix
\* is all zero
NormalizedAdjacency(A) ==
    LET m == MatrixMax(A)
    IN [i \in DOMAIN A |->
           [j \in DOMAIN A |-> IF m = 0 THEN nan ELSE A[i][j] \div m]]

RECURSIVE SumSeq(_, _)
SumSeq(row, k) ==
    IF k > Len(row) THEN 0
    ELSE LET rest == SumSeq(row, k + 1)
         IN IF row[k] = nan \/ rest = nan THEN nan ELSE row[k] + rest

\* line 540: np.sum(adjacency_values, axis = 1)
AdjacencySums(A) ==
    LET adjacency_values == NormalizedAdjacency(A)
    IN [i \in DOMAIN A |-> SumSeq(adjacency_values[i], 1)]

\* lines 552, 587: [i for i,x in enumerate(groups) if x == label_group]
RECURSIVE IndicesOf(_, _, _)
IndicesOf(gs, g, k) ==
    IF k > Len(gs) THEN <<>>
    ELSE (IF gs[k] = g THEN <<k>> ELSE <<>>) \o IndicesOf(gs, g, k + 1)

MaxOf(S) == CHOOSE m \in S : \A e \in S : e <= m

\* line 553: max(adjacency_sums[igroup])
MaxAdjacencySum(sums, igroup) == MaxOf({sums[igroup[k]] : k \in DOMAIN igroup})

\* lines 500-503, 571-575: similarity matrix of the colors
dx_matrix(cols) ==
    [i \in DOMAIN cols |->
        [j \in DOMAIN cols |->
            delta_e_cie2000(convert_color(cols[i]), convert_color(cols[j]))]]

RECURSIVE SumRow(_, _)
SumRow(row, k) == IF k > Len(row) THEN 0 ELSE row[k] + SumRow(row, k + 1)

\* np.sum(dx_matrix, axis = 1)
DxSums(cols) ==
    LET dx == dx_matrix(cols)
    IN [i \in DOMAIN cols |-> SumRow(dx[i], 1)]

\* (mutation of RemovePicked: the colors at the head of the pool are removed,
\* as many as were selected)
RemoveHead(pool, isimilar) == SubSeq(pool, Len(isimilar) + 1, Len(pool))

\* (mutation of RemovePicked: only the first selected color is removed)
RemoveFirstPicked(pool, isimilar) ==
    SelectSeq(pool, LAMBDA c : isimilar = <<>> \/ c # pool[isimilar[1]])

\* lines 599-600: icolors_to_pick.remove(...) of every selected color
RemovePicked(pool, isimilar) ==
    LET picked == {pool[isimilar[k]] : k \in DOMAIN isimilar}
    IN SelectSeq(pool, LAMBDA c : c \notin picked)

\* (mutation of AssignRows: the group's colors are appended)
AssignRowsAppended(nc, rows, cols) == nc \o cols

\* lines 655, 661: new_colors[rows] = cols
AssignRows(nc, rows, cols) ==
    [r \in DOMAIN nc |->
        IF \E k \in DOMAIN rows : rows[k] = r
        THEN cols[CHOOSE k \in DOMAIN rows : rows[k] = r]
        ELSE nc[r]]

gcRaised ==
    gc_pc \in {"raised_IOError", "raised_IndexError", "raised_TypeError"}

gcLocalsIdle ==
    /\ IDs = <<>>
    /\ names = <<>>
    /\ groups = <<>>
    /\ nlabels = 0
    /\ new_colors = <<>>
    /\ isort_labels = <<>>
    /\ label_groups = <<>>
    /\ igroup_next = 1
    /\ icolors_to_pick = <<>>
    /\ gc_colors = <<>>
    /\ new_colors_obj = "none"
    /\ gc_colors_obj = "none"

gcIdle ==
    /\ gc_pc = "idle"
    /\ colormap = <<>>
    /\ adjacency_matrix = <<>>
    /\ arg_IDs = <<>>
    /\ arg_names = <<>>
    /\ arg_groups = <<>>
    /\ plot_graphs = FALSE
    /\ gcLocalsIdle

\* (mutation of np_copy: new_colors = colors, the caller's array itself)
np_alias(obj) == obj

\* line 487: np.copy(colors) is a new array
np_copy(obj) == "copy"

\* line 815: new_colors.tolist() is a new list
tolist(obj) == "list"

\* lines 479-494: load the colormap, copy it, fill in the default lists
gcLoad ==
    /\ gc_pc = "start"
    /\ nlabels' = Len(colormap)
    /\ new_colors' = colormap
    /\ new_colors_obj' = np_copy("colormap")
    /\ IDs' = IF arg_IDs = <<>> THEN DefaultIDs(Len(colormap)) ELSE arg_IDs
    /\ names' = IF arg_names = <<>> THEN DefaultNames(Len(colormap))
                ELSE arg_names
    /\ groups' = IF arg_groups = <<>> THEN DefaultGroups(Len(colormap))
                 ELSE arg_groups
    /\ gc_pc' = "loaded"
    /\ UNCHANGED <<gcArgs, plot_graphs, isort_labels, label_groups,
                   igroup_next, icolors_to_pick, gc_colors, gc_colors_obj>>
    /\ UNCHANGED <<dcVars, lamVars>>

\* lines 527-529: raise IOError("The colormap and label adjacency matrix
\* don't have the same number of labels.")
gcRaiseLabelCount ==
    /\ gc_pc = "loaded"
    /\ adjacency_matrix # <<>>
    /\ Len(adjacency_matrix) # nlabels
    /\ gc_pc' = "raised_IOError"
    /\ UNCHANGED <<gcArgs, gcLocals>>
    /\ UNCHANGED <<dcVars, lamVars>>

\* lines 539-553 with a label index beyond the adjacency sums (groups
\* longer than the colormap): adjacency_sums[igroup] raises IndexError
gcRaiseGroupIndex ==
    /\ gc_pc = "loaded"
    /\ adjacency_matrix # <<>>
    /\ Len(adjacency_matrix) = nlabels
    /\ Len(groups) > nlabels
    /\ \E p \in argsort(AdjacencySums(adjacency_matrix)) :
          isort_labels' = Reversed(p)
    /\ label_groups' = SortedSeq(Range(groups))
    /\ gc_pc' = "raised_IndexError"
    /\ UNCHANGED <<gcArgs, IDs, names, groups, nlabels, new_colors,
                   plot_graphs, igroup_next, icolors_to_pick, gc_colors,
                   new_colors_obj, gc_colors_obj>>
    /\ UNCHANGED <<dcVars, lamVars>>

\* lines 508-554 with an adjacency matrix of nlabels rows: sort the labels
\* by decreasing adjacency sum and order the groups by decreasing maximum
\* adjacency sum
gcSortLabels ==
    /\ gc_pc = "loaded"
    /\ adjacency_matrix # <<>>
    /\ Len(adjacency_matrix) = nlabels
    /\ Len(groups) <= nlabels
    /\ LET adjacency_sums == AdjacencySums(adjacency_matrix)
           unique_groups == SortedSeq(Range(groups))
           max_adjacency_sums ==
               [k \in DOMAIN unique_groups |->
                   MaxAdjacencySum(adjacency_sums,
                                   IndicesOf(groups, unique_groups[k], 1))]
       IN /\ \E p \in argsort(adjacency_sums) : isort_labels' = Reversed(p)
          /\ \E p \in argsort(max_adjacency_sums) :
                label_groups' =
                    [k \in DOMAIN unique_groups |-> unique_groups[Reversed(p)[k]]]
    /\ gc_pc' = "labels_sorted"
    /\ UNCHANGED <<gcArgs, IDs, names, groups, nlabels, new_colors,
                   plot_graphs, igroup_next, icolors_to_pick, gc_colors,
                   new_colors_obj, gc_colors_obj>>
    /\ UNCHANGED <<dcVars, lamVars>>

\* lines 533-548 without an adjacency matrix: no graphs, labels in index
\* order (a range object), groups in np.unique order
gcSortLabelsNoAdjacency ==
    /\ gc_pc = "loaded"
    /\ adjacency_matrix = <<>>
    /\ plot_graphs' = FALSE
    /\ isort_labels' = [i \in 1..nlabels |-> i]
    /\ label_groups' = SortedSeq(Range(groups))
    /\ gc_pc' = "labels_sorted"
    /\ UNCHANGED <<gcArgs, IDs, names, groups, nlabels, new_colors,
                   igroup_next, icolors_to_pick, gc_colors,
                   new_colors_obj, gc_colors_obj>>
    /\ UNCHANGED <<dcVars, lamVars>>

\* lines 559-564: the graph nodes read IDs[inode], names[inode] and
\* groups[inode] for every label
GraphLabelMissing ==
    /\ plot_graphs
    /\ \/ Len(IDs) < nlabels
       \/ Len(names) < nlabels
       \/ Len(groups) < nlabels

\* lines 562-564 with a list shorter than the colormap: IndexError
gcRaiseGraphLabel ==
    /\ gc_pc = "labels_sorted"
    /\ GraphLabelMissing
    /\ gc_pc' = "raised_IndexError"
    /\ UNCHANGED <<gcArgs, gcLocals>>
    /\ UNCHANGED <<dcVars, lamVars>>

\* lines 559-579: (graph for plotting,) similarity matrix, colors sorted by
\* decreasing difference from all other colors
gcSortColors ==
    /\ gc_pc = "labels_sorted"
    /\ ~GraphLabelMissing
    /\ \E p \in argsort(DxSums(colormap)) : icolors_to_pick' = Reversed(p)
    /\ igroup_next' = 1
    /\ gc_pc' = "loop"
    /\ UNCHANGED <<gcArgs, IDs, names, groups, nlabels, new_colors,
                   plot_graphs, isort_labels, label_groups, gc_colors,
                   new_colors_obj, gc_colors_obj>>
    /\ UNCHANGED <<dcVars, lamVars>>

\* lines 587-606 without an adjacency matrix: the colors of the group are
\* selected and removed, then isort_labels[igroup] indexes a range object
\* with a list and raises TypeError
gcRaiseRangeIndex ==
    /\ gc_pc = "loop"
    /\ igroup_next <= Len(label_groups)
    /\ adjacency_matrix = <<>>
    /\ LET igroup == IndicesOf(groups, label_groups[igroup_next], 1)
           N == Len(igroup)
           first == dx_matrix(colormap)[icolors_to_pick[1]]
       IN \E p \in argsort([k \in DOMAIN icolors_to_pick |->
                               first[icolors_to_pick[k]]]) :
             icolors_to_pick' =
                 RemovePicked(icolors_to_pick,
                              SubSeq(p, 1, Min2(N, Len(icolors_to_pick))))
    /\ gc_pc' = "raised_TypeError"
    /\ UNCHANGED <<gcArgs, IDs, names, groups, nlabels, new_colors,
                   plot_graphs, isort_labels, label_groups, igroup_next,
                   gc_colors,
                   new_colors_obj, gc_colors_obj>>
    /\ UNCHANGED <<dcVars, lamVars>>

\* lines 584-661 with an adjacency matrix: one iteration of the loop
\* through the label groups (the groups hold at most nlabels labels in all,
\* so a color is left to pick whenever a group is left)
gcGroup ==
    /\ gc_pc = "loop"
    /\ igroup_next <= Len(label_groups)
    /\ adjacency_matrix # <<>>
    /\ LET igroup == IndicesOf(groups, label_groups[igroup_next], 1)
           N == Len(igroup)
           first == dx_matrix(colormap)[icolors_to_pick[1]]
       IN \E p \in argsort([k \in DOMAIN icolors_to_pick |->
                               first[icolors_to_pick[k]]]) :
          \E q \in argsort([k \in DOMAIN igroup |-> isort_labels[igroup[k]]]) :
             LET isimilar == SubSeq(p, 1, Min2(N, Len(icolors_to_pick)))
                 group_colors ==
                     [k \in DOMAIN isimilar |->
                         colormap[icolors_to_pick[isimilar[k]]]]
                 isort_group_labels == q
                 written ==
                     AssignRows(new_colors, isimilar,
                                [k \in DOMAIN isort_group_labels |->
                                    group_colors[isort_group_labels[k]]])
             IN /\ icolors_to_pick' = RemovePicked(icolors_to_pick, isimilar)
                /\ new_colors' = written
                \* the rows are written to the array new_colors names
                /\ colormap' = IF new_colors_obj = "colormap" THEN written
                               ELSE colormap
    /\ igroup_next' = igroup_next + 1
    /\ UNCHANGED <<gc_pc, adjacency_matrix, arg_IDs, arg_names, arg_groups,
                   IDs, names, groups, nlabels, new_colors_obj, plot_graphs,
                   isort_labels, label_groups, gc_colors, gc_colors_obj>>
    /\ UNCHANGED <<dcVars, lamVars>>

\* lines 815-817: colors = new_colors.tolist(); return colors
gcReturn ==
    /\ gc_pc = "loop"
    /\ igroup_next > Len(label_groups)
    /\ gc_colors' = new_colors
    /\ gc_colors_obj' = tolist(new_colors_obj)
    /\ gc_pc' = "returned"
    /\ UNCHANGED <<gcArgs, IDs, names, groups, nlabels, new_colors,
                   new_colors_obj, plot_graphs, isort_labels, label_groups,
                   igroup_next, icolors_to_pick>>
    /\ UNCHANGED <<dcVars, lamVars>>

\* ------------------------------------------------------------------------
\* Properties of group_colors
\* ------------------------------------------------------------------------
\* a and b hold the same elements, each the same number of times
SameMultiset(a, b) ==
    /\ Len(a) = Len(b)
    /\ \A c \in Range(a) \cup Range(b) :
          Cardinality({i \in DOMAIN a : a[i] = c})
              = Cardinality({i \in DOMAIN b : b[i] = c})

\* a list argument is left out or has one entry per color
ListFits(l) == l = <<>> \/ Len(l) = Len(colormap)

\* the adjacency matrix is given and has one row per color
AdjacencyFits ==
    adjacency_matrix # <<>> /\ Len(adjacency_matrix) = Len(colormap)

\* the counts C9 speaks of: the non-empty adjacency matrix and the non-empty
\* lists have as many entries as the colormap
CountsAgree ==
    /\ adjacency_matrix # <<>> => Len(adjacency_matrix) = Len(colormap)
    /\ ListFits(arg_IDs)
    /\ ListFits(arg_names)
    /\ ListFits(arg_groups)

DistinctKeys(keys) == \A i, j \in DOMAIN keys : i # j => keys[i] # keys[j]

\* no argsort of the call meets equal keys, so the result is the same
\* whatever order the sort gives to equal keys
SortsDecided ==
    /\ DistinctKeys(AdjacencySums(adjacency_matrix))
    /\ DistinctKeys(DxSums(colormap))
    /\ \A i \in DOMAIN colormap : DistinctKeys(dx_matrix(colormap)[i])

\* C2: for a colormap of N colors, a non-empty adjacency matrix of N rows
\* and a group list of length N, the returned colormap holds the same RGB
\* triples as the input, each as often as the input.  (Stated for the calls
\* whose sorts meet no equal keys: a violation there is a violation with
\* every sort.)
C2_PermutationInvariant ==
    (gc_pc = "returned" /\ AdjacencyFits /\ Len(arg_groups) = Len(colormap)
                        /\ SortsDecided)
        => SameMultiset(gc_colors, colormap)

\* C6: whenever group_colors returns, the returned colormap has as many
\* entries as the input colormap.
C6_ShapeInvariant ==
    gc_pc = "returned" => Len(gc_colors) = Len(colormap)

C6_Witness ==
    /\ gc_pc = "returned"
    /\ Len(colormap) >= 3
    /\ Len(label_groups) >= 2
    /\ gc_colors # colormap

\* C7: called with groups=[] and an adjacency matrix of N rows (IDs and
\* names left out or of length N), group_colors puts all N labels in the one
\* group 1, processes that single group, raises no error, can always take
\* its next step until it has returned, and returns the input colors in a
\* new order.
C7_EmptyGroupFallback ==
    (arg_groups = <<>> /\ AdjacencyFits /\ ListFits(arg_IDs)
                       /\ ListFits(arg_names))
        => /\ ~gcRaised
           /\ gc_pc # "start" => groups = [i \in 1..Len(colormap) |-> 1]
           /\ gc_pc \in {"labels_sorted", "loop", "returned"}
                 => label_groups = <<1>>
           /\ (gc_pc = "loop" /\ igroup_next = 1)
                 => IndicesOf(groups, label_groups[1], 1)
                        = [i \in 1..Len(colormap) |-> i]
           /\ gc_pc = "returned" => SameMultiset(gc_colors, colormap)

C7_Witness ==
    /\ arg_groups = <<>>
    /\ AdjacencyFits
    /\ gc_pc = "returned"
    /\ Len(colormap) >= 3
    /\ gc_colors # colormap
    /\ SameMultiset(gc_colors, colormap)

\* C8: called without an adjacency matrix (the default []) and with a
\* non-empty colormap and fitting lists, group_colors does not raise, clears
\* plot_graphs, keeps the labels in index order, and returns a colormap as
\* long as the input.
C8_EmptyAdjacencyFallback ==
    (adjacency_matrix = <<>> /\ Len(colormap) >= 1 /\ ListFits(arg_IDs)
                             /\ ListFits(arg_names) /\ ListFits(arg_groups))
        => /\ ~gcRaised
           /\ gc_pc \in {"labels_sorted", "loop", "returned"}
                 => /\ ~plot_graphs
                    /\ isort_labels = [i \in 1..Len(colormap) |-> i]
           /\ gc_pc = "returned" => Len(gc_colors) = Len(colormap)

\* C9: group_colors returns only when the counts agree, and when a count
\* disagrees it fails before any color is assigned (no group is processed).
C9_CountValidation ==
    /\ gc_pc = "returned" => CountsAgree
    /\ ~CountsAgree => igroup_next = 1

\* the label indices of the k-th group in processing order (line 587)
GroupMembers(k) == IndicesOf(groups, label_groups[k], 1)

\* a step is one iteration of the loop through the label groups
GroupStep == gc_pc = "loop" /\ igroup_next' = igroup_next + 1

\* C14: in every group iteration the output rows at the indices of the
\* group's labels become exactly the colors taken from the pool for this
\* group, and no row at an index of a label of an earlier group changes.
\* (Stated for the calls whose sorts meet no equal keys.)
C14_GroupAligned ==
    [][(GroupStep /\ SortsDecided) =>
          LET igroup == GroupMembers(igroup_next)
              selected == Range(icolors_to_pick) \ Range(icolors_to_pick')
          IN /\ {new_colors'[igroup[m]] : m \in DOMAIN igroup}
                    = {colormap[c] : c \in selected}
             /\ \A k \in 1..(igroup_next - 1) :
                    \A m \in DOMAIN GroupMembers(k) :
                       new_colors'[GroupMembers(k)[m]]
                           = new_colors[GroupMembers(k)[m]]]_vars

\* the rank of the label m among the labels in igroup by decreasing
\* adjacency sum, 1 for the highest sum
RankInGroup(m, igroup) ==
    LET sums == AdjacencySums(adjacency_matrix)
    IN 1 + Cardinality({k \in DOMAIN igroup : sums[igroup[k]] > sums[m]})

\* the place of the color c among the colors of the pool by increasing
\* difference from the first color of the pool, 1 for the first itself
PlaceInSelection(c, pool) ==
    LET first == dx_matrix(colormap)[pool[1]]
    IN 1 + Cardinality({k \in DOMAIN pool : first[pool[k]] < first[c]})

\* C15: in every group iteration the label with the k-th highest adjacency
\* sum of the group receives the k-th of the colors selected for the group,
\* the selection taken by increasing difference from the first color of the
\* pool.  (Stated for the calls whose sorts meet no equal keys.)
C15_WithinGroupOrder ==
    [][(GroupStep /\ SortsDecided) =>
          LET igroup == GroupMembers(igroup_next)
          IN \A m \in Range(igroup) :
                \E k \in DOMAIN icolors_to_pick :
                   /\ PlaceInSelection(icolors_to_pick[k], icolors_to_pick)
                          = RankInGroup(m, igroup)
                   /\ new_colors'[m] = colormap[icolors_to_pick[k]]]_vars

\* order lists indices by decreasing key, equal keys by increasing index
DescendingStable(order, keys) ==
    \A a, b \in DOMAIN order :
        a < b =>
            \/ keys[order[a]] > keys[order[b]]
            \/ /\ keys[order[a]] = keys[order[b]]
               /\ order[a] < order[b]

\* the groups in np.unique order and their maximum adjacency sums
UniqueGroups == SortedSeq(Range(groups))

MaxSumsOfGroups ==
    [k \in DOMAIN UniqueGroups |->
        MaxAdjacencySum(AdjacencySums(adjacency_matrix),
                        IndicesOf(groups, UniqueGroups[k], 1))]

\* the place of the group g in np.unique order
PlaceOfGroup(g) == CHOOSE k \in DOMAIN UniqueGroups : UniqueGroups[k] = g

\* C16: once sorted, the labels are in decreasing order of adjacency sum,
\* the groups in decreasing order of maximum adjacency sum and the colors of
\* the pool in decreasing order of total difference, and in each of the
\* three orders entries with equal keys stand in increasing original index.
\* (Stated for adjacency matrices with a non-zero entry, whose sums are
\* numbers.)
C16_StableTies ==
    (/\ gc_pc \in {"labels_sorted", "loop", "returned"}
     /\ AdjacencyFits
     /\ MatrixMax(adjacency_matrix) > 0) =>
        /\ DescendingStable(isort_labels, AdjacencySums(adjacency_matrix))
        /\ DescendingStable([k \in DOMAIN label_groups |->
                                PlaceOfGroup(label_groups[k])],
                            MaxSumsOfGroups)
        /\ gc_pc # "labels_sorted" =>
               DescendingStable(icolors_to_pick, DxSums(colormap))

\* C17: in every group iteration the first color of the pool has the
\* largest total difference of the pool, the colors taken from the pool are
\* as many as the group has labels and none of them is farther from the
\* first color of the pool than a color left in the pool, the first color
\* itself is taken, and the colors taken are the ones written to the output.
C17_GroupSelection ==
    [][GroupStep =>
          LET igroup == GroupMembers(igroup_next)
              pool == icolors_to_pick
              first == dx_matrix(colormap)[pool[1]]
              sums == DxSums(colormap)
              selected == Range(pool) \ Range(icolors_to_pick')
          IN /\ \A k \in DOMAIN pool : sums[pool[k]] <= sums[pool[1]]
             /\ Cardinality(selected) = Len(igroup)
             /\ \A c \in selected :
                    \A d \in Range(icolors_to_pick') : first[c] <= first[d]
             /\ pool[1] \in selected
             /\ \A c \in selected :
                    \E r \in DOMAIN new_colors' :
                       new_colors'[r] = colormap[c]]_vars

C17_Witness ==
    /\ gc_pc = "loop"
    /\ igroup_next = 2
    /\ Len(label_groups) = 2
    /\ Len(colormap) = MaxLabels
    /\ icolors_to_pick # <<>>
    /\ \E c \in Range(icolors_to_pick) :
           \E d \in DOMAIN colormap \ Range(icolors_to_pick) :
              /\ DxSums(colormap)[c] > DxSums(colormap)[d]
              /\ new_colors # colormap

\* the number of labels in the first k groups in processing order
RECURSIVE LabelsInGroups(_)
LabelsInGroups(k) ==
    IF k = 0 THEN 0 ELSE Len(GroupMembers(k)) + LabelsInGroups(k - 1)

\* C18: before and after every group iteration the pool holds color
\* indices of the colormap, none of them twice, and as many as the colormap
\* has colors less the labels of the groups processed; every iteration
\* takes exactly as many indices out of the pool as the group has labels and
\* puts none in; when there are as many group entries as colors the pool is
\* empty after the last group.
C18_PoolInvariant ==
    /\ [](gc_pc \in {"loop", "returned"} =>
              /\ Range(icolors_to_pick) \subseteq 1..nlabels
              /\ DistinctKeys(icolors_to_pick)
              /\ Len(icolors_to_pick)
                     = nlabels - LabelsInGroups(igroup_next - 1)
              /\ (gc_pc = "returned" /\ Len(groups) = nlabels)
                     => icolors_to_pick = <<>>)
    /\ [][GroupStep =>
             /\ Range(icolors_to_pick') \subseteq Range(icolors_to_pick)
             /\ Len(icolors_to_pick')
                    = Len(icolors_to_pick)
                          - Len(GroupMembers(igroup_next))]_vars

C18_Witness ==
    /\ gc_pc = "returned"
    /\ Len(arg_groups) = MaxLabels
    /\ nlabels = MaxLabels
    /\ Len(label_groups) = 2
    /\ icolors_to_pick = <<>>

\* C12: during a call of group_colors, returning or raising, no step
\* changes the caller's colormap array, adjacency matrix, IDs, names or
\* groups, and the object a returning call hands back is a new one, not the
\* caller's colormap array.
C12_InputsUnchanged ==
    /\ [][UNCHANGED gcArgs]_vars
    /\ [](gc_pc = "returned" =>
              /\ gc_colors_obj \notin {"none", "colormap"}
              /\ new_colors_obj \notin {"none", "colormap"})

C12_Witness ==
    /\ gc_pc = "returned"
    /\ Len(colormap) = MaxLabels
    /\ arg_IDs = LabelIDs(MaxLabels)
    /\ arg_names = LabelNames(MaxLabels)
    /\ Len(arg_groups) = MaxLabels
    /\ new_colors # colormap
    /\ gc_colors = new_colors

\* ------------------------------------------------------------------------
\* Specifications: one per function, the other two functions at rest
\* ------------------------------------------------------------------------
dcRest ==
    /\ dc_pc = "idle"
    /\ ncolors = 0
    /\ backgrounds = <<>>
    /\ dcIdle
    /\ prev_ncolors = -1
    /\ prev_colors = <<>>

InitSelect ==
    /\ dc_pc = "idle"
    /\ ncolors = 0
    /\ backgrounds \in BackgroundLists
    /\ dcIdle
    /\ prev_ncolors = -1
    /\ prev_colors = <<>>
    /\ lamIdle
    /\ gcIdle

NextSelect ==
    \/ dcCall
    \/ dcRaiseCapacity
    \/ dcSeed
    \/ dcRaiseNoBackground
    \/ dcStartLoop
    \/ dcPick
    \/ dcReturn
    \/ dcKeep

SpecSelect == InitSelect /\ [][NextSelect]_vars

\* One call distinguishable_colors(ncolors, backgrounds, ...) from the
\* capacity check to its return or error
InitPick ==
    /\ dc_pc = "check"
    /\ ncolors \in 1..(ncolors_total + 1)
    /\ backgrounds \in BackgroundLists
    /\ dcIdle
    /\ prev_ncolors = -1
    /\ prev_colors = <<>>
    /\ lamIdle
    /\ gcIdle

NextPick ==
    \/ dcRaiseCapacity
    \/ dcSeed
    \/ dcRaiseNoBackground
    \/ dcStartLoop
    \/ dcPick
    \/ dcReturn

SpecPick == InitPick /\ [][NextPick]_vars

\* A call label_adjacency_matrix(label_file, ignore_values, add_value,
\* save_table, output_format, verbose)
InitAdjacency ==
    /\ lam_pc = "start"
    /\ label_file \in LabelFiles
    /\ add_value \in {0, 1}
    /\ save_table \in BOOLEAN
    /\ output_format \in OutputFormats
    /\ label_pairs = <<>>
    /\ pairs = <<>>
    /\ unique_labels = <<>>
    /\ matrix = <<>>
    /\ output_table = "None"
    /\ dcRest
    /\ gcIdle

NextAdjacency ==
    \/ lamRaiseFileType
    \/ lamExtract
    \/ lamBuild
    \/ lamRaiseFormat
    \/ lamSaveAndReturn
    \/ lamReturnUnsaved

SpecAdjacency == InitAdjacency /\ [][NextAdjacency]_vars

\* A call group_colors(colormap, adjacency_matrix, [], [], groups, ...,
\* plot_graphs=False): the reordering itself, for every colormap, every
\* upper triangular adjacency matrix, and a group list that is empty or
\* names a group for every label (the group of the first label is called 1:
\* the numbers only tell the groups apart, and groups with equal maximum
\* adjacency sums are taken in either order)
InitGroup ==
    /\ gc_pc = "start"
    /\ colormap \in Colormaps
    /\ adjacency_matrix \in UpperTriangularArguments
    /\ arg_IDs = <<>>
    /\ arg_names = <<>>
    /\ arg_groups \in {g \in SeqsUpTo(GroupNumbers, MaxLabels) :
                         \/ Len(g) = 0
                         \/ Len(g) >= Len(colormap) /\ g[1] = 1}
    /\ plot_graphs = FALSE
    /\ gcLocalsIdle
    /\ dcRest
    /\ lamIdle

NextGroup ==
    \/ gcLoad
    \/ gcRaiseLabelCount
    \/ gcRaiseGroupIndex
    \/ gcSortLabels
    \/ gcSortLabelsNoAdjacency
    \/ gcSortColors
    \/ gcRaiseRangeIndex
    \/ gcGroup
    \/ gcReturn

SpecGroup == InitGroup /\ [][NextGroup]_vars

\* A call group_colors(colormap, adjacency_matrix, IDs, names, groups, ...,
\* plot_graphs): the arguments in every combination of lengths, for one
\* colormap of each length
InitGroupArgs ==
    /\ gc_pc = "start"
    /\ colormap \in {c \in Colormaps : c = SubSeq(PaletteOrder, 1, Len(c))}
    /\ adjacency_matrix \in AdjacencyArguments
    /\ arg_IDs \in {LabelIDs(n) : n \in 0..MaxLabels}
    /\ arg_names \in {LabelNames(n) : n \in 0..MaxLabels}
    /\ arg_groups \in SeqsUpTo(GroupNumbers, MaxLabels)
    /\ plot_graphs \in BOOLEAN
    /\ gcLocalsIdle
    /\ dcRest
    /\ lamIdle

NextGroupArgs ==
    \/ gcLoad
    \/ gcRaiseLabelCount
    \/ gcRaiseGroupIndex
    \/ gcSortLabels
    \/ gcSortLabelsNoAdjacency
    \/ gcRaiseGraphLabel
    \/ gcSortColors
    \/ gcRaiseRangeIndex
    \/ gcGroup
    \/ gcReturn

SpecGroupArgs == InitGroupArgs /\ [][NextGroupArgs]_vars

\* A call group_colors(colormap, adjacency_matrix, IDs, names, groups, ...,
\* plot_graphs) with IDs and names left out or given for every color, an
\* upper triangular adjacency matrix and any group list, for one colormap
\* of each length
InitGroupCall ==
    /\ gc_pc = "start"
    /\ colormap \in {c \in Colormaps : c = SubSeq(PaletteOrder, 1, Len(c))}
    /\ adjacency_matrix \in UpperTriangularArguments
    /\ arg_IDs \in {<<>>, LabelIDs(Len(colormap))}
    /\ arg_names \in {<<>>, LabelNames(Len(colormap))}
    /\ arg_groups \in SeqsUpTo(GroupNumbers, MaxLabels)
    /\ plot_graphs \in BOOLEAN
    /\ gcLocalsIdle
    /\ dcRest
    /\ lamIdle

NextGroupCall ==
    \/ gcLoad
    \/ gcRaiseLabelCount
    \/ gcRaiseGroupIndex
    \/ gcSortLabels
    \/ gcSortLabelsNoAdjacency
    \/ gcRaiseGraphLabel
    \/ gcSortColors
    \/ gcRaiseRangeIndex
    \/ gcGroup
    \/ gcReturn

SpecGroupCall == InitGroupCall /\ [][NextGroupCall]_vars

============================================================================
